---- MODULE Spec2Model ----
(***************************************************************************)
(* The due-schedule checker of backend/eas_core/tasks.py                   *)
(* (check_and_dispatch_due_schedules) over the Schedule rows of            *)
(* backend/eas_core/models.py.                                             *)
(*                                                                         *)
(* Time is counted in whole days since the epoch (day 0 is a Thursday).    *)
(* A checker run is split at the points where it touches the database or   *)
(* the task queue: reading the clock, the SELECT of the due rows, the      *)
(* delay() call, and the save() of one row.                                *)
(***************************************************************************)
EXTENDS Integers, Sequences, FiniteSets, TLC

\* ---- bounds of the model
NumSchedules == 2
NumWorkers == 2
MaxClock == 3
MaxRuns == 2
NumUsers == 2
NumCredentials == 4

ScheduleIds == 1..NumSchedules
Workers == 1..NumWorkers

\* ---- the values of the program
\* Python's None in a timestamp column.
NULL == 0 - 1

\* None in the cron_expression column.
NoExpr == "<None>"

FREQUENCY_ONCE == "once"
FREQUENCY_DAILY == "daily"
FREQUENCY_WEEKLY == "weekly"
FREQUENCY_MONTHLY == "monthly"
FREQUENCY_CRON == "cron"

FREQUENCY_CHOICES ==
    {FREQUENCY_ONCE, FREQUENCY_DAILY, FREQUENCY_WEEKLY, FREQUENCY_MONTHLY, FREQUENCY_CRON}

\* timedelta(days=1), timedelta(weeks=1), timedelta(days=30), in days.
DailyDelta == 1
WeeklyDelta == 7
MonthlyDelta == 30

\* The names tasks.py uses in the cron branch and whether its imports bind them.
SettingsImported == FALSE
DatetimeImported == FALSE

\* Schedule.next_run_at is declared without null=True: the column is NOT NULL.
NextRunAtNullable == FALSE

\* The cron expressions the rows of the model carry: two that croniter accepts
\* (every midnight; midnight on Sundays), the empty string and one it rejects.
EveryMidnight == "0 0 * * *"
SundayMidnight == "0 0 * * 0"
ValidCronExprs == {EveryMidnight, SundayMidnight}
BadCronExpr == "every day"
CronExprs == ValidCronExprs \cup {"", BadCronExpr, NoExpr}

\* Python truthiness of schedule.cron_expression.
Truthy(expr) == expr # NoExpr /\ expr # ""

\* Day of the week of a day number, cron's numbering (0 = Sunday); day 0 is
\* Thursday 1970-01-01.
DayOfWeek(d) == (d + 4) % 7

\* croniter(expr, base).get_next(): the first occurrence strictly after base.
\* Timestamps are midnights, so every midnight after base is base + 1.
CronNext(expr, base) ==
    IF expr = EveryMidnight
    THEN base + 1
    ELSE CHOOSE d \in (base + 1)..(base + 7) : DayOfWeek(d) = 0

\* The id of the TaskConfig schedule s refers to.
TaskConfigId(s) == 100 + s

TaskConfigIds == {TaskConfigId(s) : s \in ScheduleIds}

\* The users, and the Credentials rows with the user each belongs to.
Users == 1..NumUsers
CredentialIds == 1..NumCredentials
CredentialUser(c) == ((c - 1) % NumUsers) + 1

\* The user whose rows the checker's specifications start from.
Owner == CHOOSE u \in Users : \A v \in Users : u <= v

VARIABLES
    db,         \* the persisted Schedule rows, by id
    clock,      \* the time timezone.now() returned last
    runs,       \* checker runs started so far
    submitted,  \* per schedule, the jobs the task queue accepted for it
    failedLast, \* the schedules whose submission raised in the run finished last
    overlap,    \* whether a run has started while another was in progress
    pc,         \* per worker, its position in the run
    now,        \* per worker, the run's now
    mem,        \* per worker, the rows its queryset fetched (in-memory objects)
    pending,    \* per worker, the fetched rows the loop has not reached yet
    cur,        \* per worker, the schedule the loop body is at (0: none)
    calls,      \* per worker, the delay() calls of the run, in order
    err,        \* per worker and schedule, the exception its loop body caught
    result,     \* per worker, how the run ended
    db0,        \* per worker, the rows as they were when the run selected
    advanced,   \* per schedule, the writes of the checker that were persisted
    tc,         \* the persisted TaskConfig rows, by id
    queue,      \* per TaskConfig id, the jobs submitted and not yet executed
    outcomes    \* the executions of execute_scheduled_task that have ended

vars == <<db, clock, runs, submitted, failedLast, overlap, pc, now, mem,
          pending, cur, calls, err, result, db0, advanced, tc, queue, outcomes>>

\* ---- the initial rows
InitNextRuns == {0, 2}

\* The rows schedule s can start as: a cron_expression only on a cron row, as
\* ScheduleSerializer.validate leaves it, and never run so far.
InitRows(s) ==
    { r \in [task_config : {TaskConfigId(s)}, frequency : FREQUENCY_CHOICES,
             cron_expression : CronExprs, next_run_at : InitNextRuns,
             last_run_at : {NULL}, is_active : BOOLEAN] :
        r.frequency # FREQUENCY_CRON => r.cron_expression = NoExpr }

NoResult == [kind |-> "none", count |-> 0]

NoErr == [s \in ScheduleIds |-> "none"]

Init ==
    /\ db \in [ScheduleIds -> UNION {InitRows(s) : s \in ScheduleIds}]
    /\ \A s \in ScheduleIds : db[s] \in InitRows(s)
    /\ clock = 0
    /\ runs = 0
    /\ submitted = [s \in ScheduleIds |-> 0]
    /\ failedLast = {}
    /\ overlap = FALSE
    /\ pc = [w \in Workers |-> "idle"]
    /\ now = [w \in Workers |-> 0]
    /\ mem = [w \in Workers |-> <<>>]
    /\ pending = [w \in Workers |-> {}]
    /\ cur = [w \in Workers |-> 0]
    /\ calls = [w \in Workers |-> <<>>]
    /\ err = [w \in Workers |-> NoErr]
    /\ result = [w \in Workers |-> NoResult]
    /\ db0 = [w \in Workers |-> db]
    /\ advanced = [s \in ScheduleIds |-> 0]
    /\ tc = [i \in TaskConfigIds |-> [user |-> Owner, linked_credentials |-> NULL]]
    /\ queue = [i \in TaskConfigIds |-> 0]
    /\ outcomes = {}

\* ---- the pieces of check_and_dispatch_due_schedules

\* The filter without is_active=True.
DueSchedulesAnyActive(rows, t) ==
    { s \in DOMAIN rows : rows[s].next_run_at # NULL /\ rows[s].next_run_at <= t }

\* Schedule.objects.filter(is_active=True, next_run_at__lte=t): SQL compares a
\* NULL next_run_at to nothing.
DueSchedules(rows, t) ==
    { s \in DOMAIN rows :
        /\ rows[s].is_active
        /\ rows[s].next_run_at # NULL
        /\ rows[s].next_run_at <= t }

\* The cron branch with a truthy expression: the first name it evaluates is
\* settings, then croniter parses the expression, then get_next(datetime).
CronBranch(obj, t) ==
    IF ~SettingsImported
    THEN [exc |-> "NameError", obj |-> obj]
    ELSE IF obj.cron_expression \notin ValidCronExprs
    THEN [exc |-> "CroniterBadCronError", obj |-> obj]
    ELSE IF ~DatetimeImported
    THEN [exc |-> "NameError", obj |-> obj]
    ELSE [exc |-> "none",
          obj |-> [obj EXCEPT !.next_run_at = CronNext(obj.cron_expression, t)]]

\* The recurrence counted from the schedule's previous next_run_at, not from now.
UpdateFieldsFromPrevious(obj, t) ==
    LET o == [obj EXCEPT !.last_run_at = t] IN
    IF o.frequency = FREQUENCY_ONCE
    THEN [exc |-> "none", obj |-> [o EXCEPT !.is_active = FALSE, !.next_run_at = NULL]]
    ELSE IF o.frequency = FREQUENCY_DAILY
    THEN [exc |-> "none", obj |-> [o EXCEPT !.next_run_at = @ + DailyDelta]]
    ELSE IF o.frequency = FREQUENCY_WEEKLY
    THEN [exc |-> "none", obj |-> [o EXCEPT !.next_run_at = @ + WeeklyDelta]]
    ELSE IF o.frequency = FREQUENCY_MONTHLY
    THEN [exc |-> "none", obj |-> [o EXCEPT !.next_run_at = @ + MonthlyDelta]]
    ELSE IF o.frequency = FREQUENCY_CRON
    THEN IF Truthy(o.cron_expression)
         THEN CronBranch(o, t)
         ELSE [exc |-> "none", obj |-> [o EXCEPT !.is_active = FALSE, !.next_run_at = NULL]]
    ELSE [exc |-> "none", obj |-> o]

\* The assignments to the in-memory schedule between delay() and save():
\* the exception they raise, if any, and the object as they leave it.
UpdateFields(obj, t) ==
    LET o == [obj EXCEPT !.last_run_at = t] IN
    IF o.frequency = FREQUENCY_ONCE
    THEN [exc |-> "none", obj |-> [o EXCEPT !.is_active = FALSE, !.next_run_at = NULL]]
    ELSE IF o.frequency = FREQUENCY_DAILY
    THEN [exc |-> "none", obj |-> [o EXCEPT !.next_run_at = t + DailyDelta]]
    ELSE IF o.frequency = FREQUENCY_WEEKLY
    THEN [exc |-> "none", obj |-> [o EXCEPT !.next_run_at = t + WeeklyDelta]]
    ELSE IF o.frequency = FREQUENCY_MONTHLY
    THEN [exc |-> "none", obj |-> [o EXCEPT !.next_run_at = t + MonthlyDelta]]
    ELSE IF o.frequency = FREQUENCY_CRON
    THEN IF Truthy(o.cron_expression)
         THEN CronBranch(o, t)
         ELSE [exc |-> "none", obj |-> [o EXCEPT !.is_active = FALSE, !.next_run_at = NULL]]
    ELSE [exc |-> "none", obj |-> o]

\* schedule.save() writes every column of the object; the database refuses a
\* NULL in a NOT NULL column.
SaveRaises(obj) == obj.next_run_at = NULL /\ ~NextRunAtNullable

\* schedule.save() of a row that the cascade of its TaskConfig's deletion has
\* removed: the UPDATE matches no row, and the INSERT that follows it refers
\* to a TaskConfig that is gone.
SaveOrphans(s, obj) == s \notin DOMAIN db /\ obj.task_config \notin DOMAIN tc

\* An except clause that logs and raises again.
ExceptClauseReraise(exc) == "raise"

\* The except clause of the loop body: every exception the body raises is an
\* Exception, which the clause logs before the loop goes on.
ExceptClause(exc) ==
    IF exc \in {"SubmitError", "NameError", "CroniterBadCronError", "IntegrityError"}
    THEN "continue"
    ELSE "raise"

InProgress(w) == pc[w] \in {"select", "loop", "update"}

\* ---- the steps of a run

\* now = timezone.now(): the time that has passed since the clock was read
\* last is any, and the clock does not go back.
StartRun(w) ==
    /\ pc[w] \in {"idle", "done"}
    /\ runs < MaxRuns
    /\ runs' = runs + 1
    /\ \E t \in clock..MaxClock :
        /\ clock' = t
        /\ now' = [now EXCEPT ![w] = t]
    /\ overlap' = (overlap \/ \E v \in Workers \ {w} : InProgress(v))
    /\ pc' = [pc EXCEPT ![w] = "select"]
    /\ mem' = [mem EXCEPT ![w] = <<>>]
    /\ pending' = [pending EXCEPT ![w] = {}]
    /\ cur' = [cur EXCEPT ![w] = 0]
    /\ calls' = [calls EXCEPT ![w] = <<>>]
    /\ err' = [err EXCEPT ![w] = NoErr]
    /\ result' = [result EXCEPT ![w] = NoResult]
    /\ db0' = [db0 EXCEPT ![w] = db]
    /\ UNCHANGED <<db, submitted, failedLast, advanced, tc, queue, outcomes>>

\* The worker that runs the checker when runs do not overlap.
Beat == CHOOSE w \in Workers : \A v \in Workers : w <= v

\* The queryset is evaluated when the for loop starts iterating it.
SelectDue(w) ==
    /\ pc[w] = "select"
    /\ LET due == DueSchedules(db, now[w]) IN
        /\ mem' = [mem EXCEPT ![w] = [s \in due |-> db[s]]]
        /\ pending' = [pending EXCEPT ![w] = due]
    /\ db0' = [db0 EXCEPT ![w] = db]
    /\ pc' = [pc EXCEPT ![w] = "loop"]
    /\ UNCHANGED <<db, clock, runs, submitted, failedLast, overlap, now,
                   cur, calls, err, result, advanced, tc, queue, outcomes>>

\* Where the run goes after the loop body of schedule s raised exc.
AfterException(w, s, exc) ==
    /\ err' = [err EXCEPT ![w][s] = exc]
    /\ cur' = [cur EXCEPT ![w] = 0]
    /\ IF ExceptClause(exc) = "continue"
       THEN /\ pc' = [pc EXCEPT ![w] = "loop"]
            /\ result' = result
       ELSE /\ pc' = [pc EXCEPT ![w] = "done"]
            /\ result' = [result EXCEPT ![w] = [kind |-> "raised", count |-> 0]]

\* A loop body whose try covers the delay() call alone: after a failed
\* submission it still updates and saves the schedule.
DispatchThenUpdateAnyway(w) ==
    /\ pc[w] = "loop"
    /\ \E s \in pending[w], ok \in BOOLEAN :
        /\ mem[w][s].task_config \in DOMAIN tc
        /\ pending' = [pending EXCEPT ![w] = @ \ {s}]
        /\ calls' = [calls EXCEPT ![w] =
                       Append(@, [sched |-> s, arg |-> mem[w][s].task_config, ok |-> ok])]
        /\ submitted' = [submitted EXCEPT ![s] = IF ok THEN @ + 1 ELSE @]
        /\ queue' = [queue EXCEPT ![mem[w][s].task_config] = IF ok THEN @ + 1 ELSE @]
        /\ err' = [err EXCEPT ![w][s] = IF ok THEN @ ELSE "SubmitError"]
        /\ cur' = [cur EXCEPT ![w] = s]
        /\ pc' = [pc EXCEPT ![w] = "update"]
        /\ UNCHANGED result
    /\ UNCHANGED <<db, clock, runs, failedLast, overlap, now, mem, db0,
                   advanced, tc, outcomes>>

\* The next row of the queryset (it has no order_by), its TaskConfig fetched
\* for the log line before the try, and
\* execute_scheduled_task.delay(schedule.task_config.id), which the broker
\* accepts or which raises.
Dispatch(w) ==
    /\ pc[w] = "loop"
    /\ \E s \in pending[w], ok \in BOOLEAN :
        /\ mem[w][s].task_config \in DOMAIN tc
        /\ pending' = [pending EXCEPT ![w] = @ \ {s}]
        /\ calls' = [calls EXCEPT ![w] =
                       Append(@, [sched |-> s, arg |-> mem[w][s].task_config, ok |-> ok])]
        /\ IF ok
           THEN /\ submitted' = [submitted EXCEPT ![s] = @ + 1]
                /\ queue' = [queue EXCEPT ![mem[w][s].task_config] = @ + 1]
                /\ cur' = [cur EXCEPT ![w] = s]
                /\ pc' = [pc EXCEPT ![w] = "update"]
                /\ UNCHANGED <<err, result>>
           ELSE /\ submitted' = submitted
                /\ queue' = queue
                /\ AfterException(w, s, "SubmitError")
    /\ UNCHANGED <<db, clock, runs, failedLast, overlap, now, mem, db0,
                   advanced, tc, outcomes>>

\* The update of the in-memory schedule and schedule.save().
UpdateAndSave(w) ==
    /\ pc[w] = "update"
    /\ LET s == cur[w]
           u == UpdateFields(mem[w][s], now[w])
           exc == IF u.exc # "none" THEN u.exc
                  ELSE IF SaveRaises(u.obj) THEN "IntegrityError"
                  ELSE IF SaveOrphans(s, u.obj) THEN "IntegrityError"
                  ELSE "none"
       IN
        /\ mem' = [mem EXCEPT ![w][s] = u.obj]
        /\ IF exc = "none"
           THEN /\ db' = [db EXCEPT ![s] = u.obj]
                /\ advanced' = [advanced EXCEPT ![s] = @ + 1]
                /\ cur' = [cur EXCEPT ![w] = 0]
                /\ pc' = [pc EXCEPT ![w] = "loop"]
                /\ UNCHANGED <<err, result>>
           ELSE /\ db' = db
                /\ advanced' = advanced
                /\ AfterException(w, s, exc)
    /\ UNCHANGED <<clock, runs, submitted, failedLast, overlap, now,
                   pending, calls, db0, tc, queue, outcomes>>

\* The loop is over: the summary counts the rows the filter matches now.
Finish(w) ==
    /\ pc[w] = "loop"
    /\ pending[w] = {}
    /\ result' = [result EXCEPT ![w] =
                    [kind |-> "returned",
                     count |-> Cardinality(DueSchedules(db, now[w]))]]
    /\ failedLast' = {s \in ScheduleIds : err[w][s] = "SubmitError"}
    /\ pc' = [pc EXCEPT ![w] = "done"]
    /\ UNCHANGED <<db, clock, runs, submitted, overlap, now, mem, pending,
                   cur, calls, err, db0, advanced, tc, queue, outcomes>>

\* Runs one at a time, each to completion.
Next ==
    \/ StartRun(Beat)
    \/ SelectDue(Beat)
    \/ Dispatch(Beat)
    \/ UpdateAndSave(Beat)
    \/ Finish(Beat)

Spec == Init /\ [][Next]_vars

\* Runs that may overlap.
NextConc ==
    \/ \E w \in Workers : StartRun(w)
    \/ \E w \in Workers : SelectDue(w)
    \/ \E w \in Workers : Dispatch(w)
    \/ \E w \in Workers : UpdateAndSave(w)
    \/ \E w \in Workers : Finish(w)

\* Two runs that are triggered while every schedule is due.
InitConc ==
    /\ Init
    /\ \A s \in ScheduleIds : db[s].is_active /\ db[s].next_run_at <= clock

SpecConc == InitConc /\ [][NextConc]_vars

\* ---- the Schedule API: ScheduleViewSet and ScheduleSerializer

\* The fields of a Schedule a request can write (last_run_at and user are
\* read-only; the task_config of a schedule is the one it was created with).
ScheduleFields == {"frequency", "cron_expression", "next_run_at", "is_active"}

\* What a field a request leaves out is filled with in its record.
AbsentField ==
    [fields |-> {}, frequency |-> FREQUENCY_ONCE, cron_expression |-> NoExpr,
     next_run_at |-> 0, is_active |-> TRUE]

\* The request bodies that pass the field validation: fields names the keys
\* the body has. A null cron_expression is allowed, a null next_run_at is not.
ScheduleRequests ==
    { d \in [fields : SUBSET ScheduleFields, frequency : FREQUENCY_CHOICES,
             cron_expression : CronExprs, next_run_at : InitNextRuns,
             is_active : BOOLEAN] :
        \A f \in ScheduleFields \ d.fields : d[f] = AbsentField[f] }

\* A PATCH of is_active alone.
ActiveRequest(b) == [AbsentField EXCEPT !.fields = {"is_active"}, !.is_active = b]

\* ScheduleSerializer.validate(data): data.get() of a key the body lacks is
\* None, like a null sent for it.
Validate(data) ==
    LET frequency == IF "frequency" \in data.fields THEN data.frequency ELSE "<None>"
        cron_expression ==
            IF "cron_expression" \in data.fields THEN data.cron_expression ELSE NoExpr
    IN  IF frequency = FREQUENCY_CRON /\ ~Truthy(cron_expression)
        THEN [ok |-> FALSE, data |-> data]
        ELSE IF frequency = FREQUENCY_ONCE /\ "next_run_at" \notin data.fields
        THEN [ok |-> FALSE, data |-> data]
        ELSE IF frequency # FREQUENCY_CRON /\ cron_expression # NoExpr
        THEN [ok |-> TRUE, data |-> [data EXCEPT !.cron_expression = NoExpr]]
        ELSE [ok |-> TRUE, data |-> data]

\* serializer.save(): the validated keys are set on the instance, the other
\* columns stay.
ApplyData(row, data) ==
    [f \in DOMAIN row |-> IF f \in data.fields THEN data[f] ELSE row[f]]

\* The fields a POST or a PUT must carry besides task_config.
RequiredFields == {"frequency", "next_run_at"}

\* A new Schedule before the validated keys are set: the model's defaults.
NewSchedule(s) ==
    [task_config |-> TaskConfigId(s), frequency |-> "", cron_expression |-> NoExpr,
     next_run_at |-> NULL, last_run_at |-> NULL, is_active |-> TRUE]

\* POST /api/schedules/ by the owner of the TaskConfig.
ScheduleCreate(s, data) ==
    /\ s \notin DOMAIN db
    /\ TaskConfigId(s) \in DOMAIN tc
    /\ RequiredFields \subseteq data.fields
    /\ Validate(data).ok
    /\ db' = (s :> ApplyData(NewSchedule(s), Validate(data).data)) @@ db
    /\ UNCHANGED <<clock, runs, submitted, failedLast, overlap, pc, now, mem,
                   pending, cur, calls, err, result, db0, advanced, tc, queue,
                   outcomes>>

\* PUT /api/schedules/<s>/ by the owner of the schedule.
ScheduleUpdate(s, data) ==
    /\ s \in DOMAIN db
    /\ RequiredFields \subseteq data.fields
    /\ Validate(data).ok
    /\ db' = [db EXCEPT ![s] = ApplyData(@, Validate(data).data)]
    /\ UNCHANGED <<clock, runs, submitted, failedLast, overlap, pc, now, mem,
                   pending, cur, calls, err, result, db0, advanced, tc, queue,
                   outcomes>>

\* PATCH /api/schedules/<s>/ by the owner of the schedule.
SchedulePartialUpdate(s, data) ==
    /\ s \in DOMAIN db
    /\ Validate(data).ok
    /\ db' = [db EXCEPT ![s] = ApplyData(@, Validate(data).data)]
    /\ UNCHANGED <<clock, runs, submitted, failedLast, overlap, pc, now, mem,
                   pending, cur, calls, err, result, db0, advanced, tc, queue,
                   outcomes>>

\* The checker, one run at a time, while the owner switches schedules on and off.
NextOwner ==
    \/ StartRun(Beat)
    \/ SelectDue(Beat)
    \/ Dispatch(Beat)
    \/ UpdateAndSave(Beat)
    \/ Finish(Beat)
    \/ \E s \in ScheduleIds, b \in BOOLEAN : SchedulePartialUpdate(s, ActiveRequest(b))

SpecOwner == InitConc /\ [][NextOwner]_vars

\* No checker run has started and no job has been submitted.
InitIdle ==
    /\ clock = 0
    /\ runs = 0
    /\ submitted = [s \in ScheduleIds |-> 0]
    /\ failedLast = {}
    /\ overlap = FALSE
    /\ pc = [w \in Workers |-> "idle"]
    /\ now = [w \in Workers |-> 0]
    /\ mem = [w \in Workers |-> <<>>]
    /\ pending = [w \in Workers |-> {}]
    /\ cur = [w \in Workers |-> 0]
    /\ calls = [w \in Workers |-> <<>>]
    /\ err = [w \in Workers |-> NoErr]
    /\ result = [w \in Workers |-> NoResult]
    /\ db0 = [w \in Workers |-> <<>>]
    /\ advanced = [s \in ScheduleIds |-> 0]
    /\ queue = [i \in TaskConfigIds |-> 0]
    /\ outcomes = {}

\* No Schedule yet, the owner's TaskConfigs there.
InitApi ==
    /\ db = <<>>
    /\ tc = [i \in TaskConfigIds |-> [user |-> Owner, linked_credentials |-> NULL]]
    /\ InitIdle

\* The owner's create, full update and partial update requests.
NextApi ==
    \/ \E s \in ScheduleIds, d \in ScheduleRequests : ScheduleCreate(s, d)
    \/ \E s \in ScheduleIds, d \in ScheduleRequests : ScheduleUpdate(s, d)
    \/ \E s \in ScheduleIds, d \in ScheduleRequests : SchedulePartialUpdate(s, d)

SpecApi == InitApi /\ [][NextApi]_vars

\* ---- a worker that dies

\* The process running the checker is killed: what it held in memory is gone,
\* what it wrote and what it submitted stay.
Crash(w) ==
    /\ InProgress(w)
    /\ pc' = [pc EXCEPT ![w] = "idle"]
    /\ mem' = [mem EXCEPT ![w] = <<>>]
    /\ pending' = [pending EXCEPT ![w] = {}]
    /\ cur' = [cur EXCEPT ![w] = 0]
    /\ calls' = [calls EXCEPT ![w] = <<>>]
    /\ err' = [err EXCEPT ![w] = NoErr]
    /\ UNCHANGED <<db, clock, runs, submitted, failedLast, overlap, now, result,
                   db0, advanced, tc, queue, outcomes>>

\* Runs one at a time, each to completion or to a crash.
NextCrash ==
    \/ StartRun(Beat)
    \/ SelectDue(Beat)
    \/ Dispatch(Beat)
    \/ UpdateAndSave(Beat)
    \/ Finish(Beat)
    \/ Crash(Beat)

SpecCrash == Init /\ [][NextCrash]_vars

\* ---- execute_scheduled_task and the deletion of a TaskConfig

\* An execute_scheduled_task that lets TaskConfig.DoesNotExist reach the
\* clause that raises again.
ExecuteScheduledTaskRaising(task_config_id, rows) ==
    IF task_config_id \in DOMAIN rows
    THEN [id |-> task_config_id, state |-> "SUCCESS", result |-> "executed",
          logged |-> "info"]
    ELSE [id |-> task_config_id, state |-> "FAILURE", result |-> "DoesNotExist",
          logged |-> "error"]

\* execute_scheduled_task(task_config_id) over the TaskConfig rows: how the
\* job ends (a task that returns has succeeded, one that raises has failed),
\* what it returns and the level of its last log line.
ExecuteScheduledTask(task_config_id, rows) ==
    IF task_config_id \in DOMAIN rows
    THEN [id |-> task_config_id, state |-> "SUCCESS", result |-> "executed",
          logged |-> "info"]
    ELSE [id |-> task_config_id, state |-> "SUCCESS", result |-> "not found",
          logged |-> "error"]

\* A worker takes a job from the queue and runs it; found records whether the
\* TaskConfig was there when it ran.
Execute(i) ==
    /\ queue[i] > 0
    /\ queue' = [queue EXCEPT ![i] = @ - 1]
    /\ outcomes' = outcomes \cup
                      {[found |-> i \in DOMAIN tc, job |-> ExecuteScheduledTask(i, tc)]}
    /\ UNCHANGED <<db, clock, runs, submitted, failedLast, overlap, pc, now, mem,
                   pending, cur, calls, err, result, db0, advanced, tc>>

\* DELETE /api/task-configs/<i>/ by its owner: the Schedules of the TaskConfig
\* go with it (on_delete=CASCADE).
TaskConfigDestroy(i) ==
    /\ i \in DOMAIN tc
    /\ tc' = [j \in DOMAIN tc \ {i} |-> tc[j]]
    /\ db' = [s \in {r \in DOMAIN db : db[r].task_config # i} |-> db[s]]
    /\ UNCHANGED <<clock, runs, submitted, failedLast, overlap, pc, now, mem,
                   pending, cur, calls, err, result, db0, advanced, queue, outcomes>>

\* Dispatch in two steps, for when TaskConfigs are deleted while a run is in
\* progress. First the next row of the queryset and its TaskConfig, fetched
\* for the log line before the try and kept on the object.
FetchTaskConfig(w) ==
    /\ pc[w] = "loop"
    /\ \E s \in pending[w] :
        /\ mem[w][s].task_config \in DOMAIN tc
        /\ pending' = [pending EXCEPT ![w] = @ \ {s}]
        /\ cur' = [cur EXCEPT ![w] = s]
    /\ pc' = [pc EXCEPT ![w] = "try"]
    /\ UNCHANGED <<db, clock, runs, submitted, failedLast, overlap, now, mem,
                   calls, err, result, db0, advanced, tc, queue, outcomes>>

\* Then execute_scheduled_task.delay() with the id of the TaskConfig fetched.
DispatchFetched(w) ==
    /\ pc[w] = "try"
    /\ \E ok \in BOOLEAN :
        LET s == cur[w] IN
        /\ calls' = [calls EXCEPT ![w] =
                       Append(@, [sched |-> s, arg |-> mem[w][s].task_config, ok |-> ok])]
        /\ IF ok
           THEN /\ submitted' = [submitted EXCEPT ![s] = @ + 1]
                /\ queue' = [queue EXCEPT ![mem[w][s].task_config] = @ + 1]
                /\ pc' = [pc EXCEPT ![w] = "update"]
                /\ UNCHANGED <<cur, err, result>>
           ELSE /\ submitted' = submitted
                /\ queue' = queue
                /\ AfterException(w, s, "SubmitError")
    /\ UNCHANGED <<db, clock, runs, failedLast, overlap, now, mem, pending, db0,
                   advanced, tc, outcomes>>

\* The loop reaches a schedule whose TaskConfig is gone: fetching it for the
\* log line raises TaskConfig.DoesNotExist outside the try, and the run ends.
DispatchAborts(w) ==
    /\ pc[w] = "loop"
    /\ \E s \in pending[w] : mem[w][s].task_config \notin DOMAIN tc
    /\ pc' = [pc EXCEPT ![w] = "done"]
    /\ result' = [result EXCEPT ![w] = [kind |-> "raised", count |-> 0]]
    /\ UNCHANGED <<db, clock, runs, submitted, failedLast, overlap, now, mem,
                   pending, cur, calls, err, db0, advanced, tc, queue, outcomes>>

\* The checker, the workers that execute the jobs, and the owner deleting
\* TaskConfigs.
NextExec ==
    \/ StartRun(Beat)
    \/ SelectDue(Beat)
    \/ FetchTaskConfig(Beat)
    \/ DispatchFetched(Beat)
    \/ DispatchAborts(Beat)
    \/ UpdateAndSave(Beat)
    \/ Finish(Beat)
    \/ \E i \in TaskConfigIds : Execute(i)
    \/ \E i \in TaskConfigIds : TaskConfigDestroy(i)

SpecExec == InitConc /\ [][NextExec]_vars

\* ---- the TaskConfig API: TaskConfigViewSet and TaskConfigSerializer

\* The Credentials a request of user u can name in linked_credentials_id: the
\* field's queryset is Credentials.objects.all().
LinkableCredentials(u) == CredentialIds

\* POST /api/task-configs/ by user u, with linked_credentials_id c or null.
TaskConfigCreate(u, i, c) ==
    /\ i \notin DOMAIN tc
    /\ c \in LinkableCredentials(u) \cup {NULL}
    /\ tc' = (i :> [user |-> u, linked_credentials |-> c]) @@ tc
    /\ UNCHANGED <<db, clock, runs, submitted, failedLast, overlap, pc, now, mem,
                   pending, cur, calls, err, result, db0, advanced, queue, outcomes>>

\* PUT or PATCH /api/task-configs/<i>/ by user u, who sees only their own rows,
\* with linked_credentials_id c or null.
TaskConfigUpdate(u, i, c) ==
    /\ i \in DOMAIN tc
    /\ tc[i].user = u
    /\ c \in LinkableCredentials(u) \cup {NULL}
    /\ tc' = [tc EXCEPT ![i] = [user |-> u, linked_credentials |-> c]]
    /\ UNCHANGED <<db, clock, runs, submitted, failedLast, overlap, pc, now, mem,
                   pending, cur, calls, err, result, db0, advanced, queue, outcomes>>

\* No TaskConfig and no Schedule yet.
InitTaskConfigs ==
    /\ db = <<>>
    /\ tc = <<>>
    /\ InitIdle

NextTaskConfigs ==
    \/ \E u \in Users, i \in TaskConfigIds, c \in CredentialIds \cup {NULL} :
          TaskConfigCreate(u, i, c)
    \/ \E u \in Users, i \in TaskConfigIds, c \in CredentialIds \cup {NULL} :
          TaskConfigUpdate(u, i, c)

SpecTaskConfigs == InitTaskConfigs /\ [][NextTaskConfigs]_vars

\* ---- what the claims speak of

\* The run of worker w called delay() for schedule s and the broker accepted it.
Accepted(w, s) ==
    \E i \in 1..Len(calls[w]) : calls[w][i].sched = s /\ calls[w][i].ok

\* The run of worker w called delay() for schedule s and the call raised.
Refused(w, s) ==
    \E i \in 1..Len(calls[w]) : calls[w][i].sched = s /\ ~calls[w][i].ok

\* The delay() calls the run of worker w made for schedule s.
CallsFor(w, s) == { i \in 1..Len(calls[w]) : calls[w][i].sched = s }

\* The rows the run of worker w was to select: active, next_run_at at or before now.
WasDue(w, s) ==
    /\ db0[w][s].is_active = TRUE
    /\ db0[w][s].next_run_at # NULL
    /\ db0[w][s].next_run_at <= now[w]

Recurring == {"daily", "weekly", "monthly"}

\* C1: runs that execute one at a time submit at most one job in total for a
\* schedule of frequency 'once'.
OnceDispatchedAtMostOnce ==
    \A s \in ScheduleIds : db[s].frequency = "once" => submitted[s] <= 1

\* C2: after a run that dispatched a cron schedule with a valid expression, the
\* persisted next_run_at is after now, is the cron library's first occurrence
\* after now, and is_active is as it was.
CronScheduleAdvanced ==
    \A w \in Workers, s \in ScheduleIds :
        ( /\ pc[w] = "done"
          /\ Accepted(w, s)
          /\ db0[w][s].frequency = "cron"
          /\ db0[w][s].cron_expression \in {"0 0 * * *", "0 0 * * 0"} )
        => /\ db[s].next_run_at > now[w]
           /\ db[s].next_run_at = CronNext(db0[w][s].cron_expression, now[w])
           /\ db[s].is_active = db0[w][s].is_active

\* C3: after a run that processed a cron schedule whose expression is missing,
\* empty or invalid, the persisted row is inactive with a null next_run_at.
CronMisconfiguredDeactivated ==
    \A w \in Workers, s \in ScheduleIds :
        ( /\ pc[w] = "done"
          /\ Accepted(w, s)
          /\ db0[w][s].frequency = "cron"
          /\ db0[w][s].cron_expression \notin {"0 0 * * *", "0 0 * * 0"} )
        => /\ db[s].is_active = FALSE
           /\ db[s].next_run_at = NULL

\* C4: after a run that dispatched a 'once' schedule, the persisted row is
\* inactive with a null next_run_at.
OnceDeactivated ==
    \A w \in Workers, s \in ScheduleIds :
        (pc[w] = "done" /\ Accepted(w, s) /\ db0[w][s].frequency = "once")
        => /\ db[s].is_active = FALSE
           /\ db[s].next_run_at = NULL

\* C5: after a run that dispatched a daily, weekly or monthly schedule, the
\* persisted next_run_at is the run's now plus 1, 7 or 30 days, and is_active
\* is as it was.
RecurringAdvancedFromNow ==
    \A w \in Workers, s \in ScheduleIds :
        (pc[w] = "done" /\ Accepted(w, s) /\ db0[w][s].frequency \in Recurring)
        => /\ db[s].next_run_at =
                now[w] + (CASE db0[w][s].frequency = "daily" -> 1
                            [] db0[w][s].frequency = "weekly" -> 7
                            [] db0[w][s].frequency = "monthly" -> 30)
           /\ db[s].is_active = db0[w][s].is_active

\* A finished run dispatched a weekly schedule that had been due before now, and
\* the row holds now + 7 days.
RecurringAdvancedWitness ==
    \E w \in Workers, s \in ScheduleIds :
        /\ pc[w] = "done"
        /\ Accepted(w, s)
        /\ db0[w][s].frequency = "weekly"
        /\ db0[w][s].next_run_at < now[w]
        /\ db[s].next_run_at = now[w] + 7
        /\ db[s].is_active

\* C6: after a run that submitted a job for a schedule, the persisted
\* last_run_at of the schedule is the run's now, whatever its frequency.
LastRunAtIsNow ==
    \A w \in Workers, s \in ScheduleIds :
        (pc[w] = "done" /\ Accepted(w, s)) => db[s].last_run_at = now[w]

\* C7: a run calls delay() only for rows that were active with next_run_at at or
\* before now, at most once each and with the row's TaskConfig id; when it has
\* finished it has called it for each of them; the other rows are as they were.
SelectionExact ==
    \A w \in Workers, s \in ScheduleIds :
        /\ \A i \in CallsFor(w, s) :
              WasDue(w, s) /\ calls[w][i].arg = db0[w][s].task_config
        /\ Cardinality(CallsFor(w, s)) <= 1
        /\ (pc[w] = "done" /\ WasDue(w, s)) => Cardinality(CallsFor(w, s)) = 1
        /\ (pc[w] \in {"loop", "update", "done"} /\ ~WasDue(w, s)) => db[s] = db0[w][s]

\* A finished run over a due row and an inactive row whose next_run_at was at or
\* before now: it called delay() once for the first and never for the second.
SelectionExactWitness ==
    \E w \in Workers, s, u \in ScheduleIds :
        /\ pc[w] = "done"
        /\ WasDue(w, s)
        /\ Cardinality(CallsFor(w, s)) = 1
        /\ ~db0[w][u].is_active
        /\ db0[w][u].next_run_at <= now[w]
        /\ CallsFor(w, u) = {}

\* C8: a schedule whose submission raised keeps its persisted row as it was, is
\* still due, and the next run selects it again.
FailedSubmissionLeavesDue ==
    \A w \in Workers, s \in ScheduleIds :
        /\ (pc[w] \in {"loop", "update", "done"} /\ Refused(w, s))
           => /\ db[s] = db0[w][s]
              /\ db[s].is_active /\ db[s].next_run_at # NULL /\ db[s].next_run_at <= now[w]
        /\ (pc[w] \in {"loop", "update"} /\ s \in failedLast) => s \in DOMAIN mem[w]

\* A second run has selected a daily schedule whose submission raised in the
\* first run, at a later now.
FailedSubmissionWitness ==
    \E w \in Workers, s \in ScheduleIds :
        /\ runs = 2
        /\ pc[w] = "loop"
        /\ s \in failedLast
        /\ s \in DOMAIN mem[w]
        /\ db[s].frequency = "daily"
        /\ db[s].next_run_at < now[w]
        /\ db[s].last_run_at = NULL

\* C9: no run ends by raising; a finished run has returned its summary, has
\* called delay() for every schedule it selected, and has advanced every
\* schedule whose own processing raised nothing.
FailureNeverAborts ==
    \A w \in Workers :
        /\ result[w].kind # "raised"
        /\ pc[w] = "done" =>
            /\ result[w].kind = "returned"
            /\ \A s \in DOMAIN mem[w] :
                /\ Cardinality(CallsFor(w, s)) = 1
                /\ err[w][s] = "none" =>
                      db[s].last_run_at = now[w] /\ db[s].next_run_at > now[w]

\* A finished run in which the first schedule processed raised (the submission,
\* or the update) and the second was dispatched and advanced.
FailureNeverAbortsWitness ==
    \E w \in Workers, s, u \in ScheduleIds :
        /\ pc[w] = "done"
        /\ result[w].kind = "returned"
        /\ Len(calls[w]) = 2
        /\ calls[w][1].sched = s
        /\ calls[w][2].sched = u
        /\ err[w][s] \in {"SubmitError", "IntegrityError", "NameError"}
        /\ err[w][u] = "none"
        /\ db[u].last_run_at = now[w]

\* C10: two runs that overlap never both submit a job for the same schedule.
\* Stated for the runs and schedules where runs one at a time submit one job:
\* the same now, and a daily, weekly or monthly schedule.
OverlappingRunsDispatchOnce ==
    \A w, v \in Workers, s \in ScheduleIds :
        (w # v /\ overlap /\ now[w] = now[v] /\ db[s].frequency \in Recurring)
        => ~(Accepted(w, s) /\ Accepted(v, s))

\* C11: a step that turns a persisted is_active from false to true is a request
\* of the owner, never a step of the checker.
OnlyOwnerReactivates ==
    [][ \A s \in ScheduleIds :
          (db[s].is_active = FALSE /\ db'[s].is_active = TRUE)
          => \E b \in BOOLEAN : SchedulePartialUpdate(s, ActiveRequest(b)) ]_vars

\* C13: every persisted Schedule has a non-empty cron_expression if its
\* frequency is 'cron' and a null cron_expression otherwise.
CronExpressionMatchesFrequency ==
    \A s \in DOMAIN db :
        /\ db[s].frequency = "cron" => db[s].cron_expression \notin {NoExpr, ""}
        /\ db[s].frequency # "cron" => db[s].cron_expression = NoExpr

AdvanceOnlyAfterSubmit ==
    \A s \in ScheduleIds :
        /\ advanced[s] <= submitted[s]
        /\ \A w \in Workers :
            /\ (pc[w] \in {"loop", "update", "done"} /\ db[s] # db0[w][s])
               => Accepted(w, s)
            /\ (pc[w] = "update" /\ cur[w] = s)
               => /\ Accepted(w, s)
                  /\ db[s] = db0[w][s]
                  /\ db[s].is_active /\ db[s].next_run_at <= now[w]

\* A run crashed between the submission for a daily schedule and the write, and
\* the next run has selected the schedule again.
CrashRedispatchWitness ==
    \E w \in Workers, s \in ScheduleIds :
        /\ runs = 2
        /\ pc[w] = "loop"
        /\ s \in pending[w]
        /\ db[s].frequency = "daily"
        /\ submitted[s] = 1
        /\ advanced[s] = 0

\* C15: every TaskConfig that links Credentials links Credentials of its own user.
LinkedCredentialsOwnedByUser ==
    \A i \in DOMAIN tc :
        tc[i].linked_credentials # NULL
        => CredentialUser(tc[i].linked_credentials) = tc[i].user

====
